---- MODULE Spec2Model ----
(***************************************************************************)
(* A model of the claim-reduction core of binius:                          *)
(*   - oracle/composite.rs          CompositePolyOracle                    *)
(*   - protocols/greedy_evalcheck   the greedy evalcheck round driver      *)
(*   - benches/prodcheck.rs         the grand-product witness benchmark    *)
(*                                  and its batch on parallel workers      *)
(* Each part has its own variables and its own specification; a            *)
(* specification leaves the variables of the other parts untouched.        *)
(***************************************************************************)
EXTENDS Integers, Sequences, FiniteSets, TLC

VARIABLES
    \* ---- CompositePolyOracle (oracle/composite.rs)
    c_args,     \* the arguments of the last call of CompositePolyOracle::new
    c_result,   \* what that call returned: Ok(value) or Err(error)
    c_ret,      \* the last query made on the value, and what it returned
    \* ---- greedy_evalcheck::prove (protocols/greedy_evalcheck/prove.rs)
    oracles,                  \* the oracle set: id -> [kind, inner]
    claims,                   \* the initial claims handed to the driver
    transcript,               \* the prover transcript: writes and derived challenges
    pc,                       \* the driver's position in prove()
    evalcheck_prover,         \* the EvalcheckProver's state
    new_bivariate_sumchecks,  \* the drained bivariate batch of this round
    new_mlechecks,            \* the drained MLE-check units not yet reduced
    new_evalcheck_claims,     \* the claims the reductions of this round returned
    rounds,                   \* how many times the body of the loop was entered
    output,                   \* what prove() returned
    run,                      \* 1: first invocation, 2: the same inputs run again
    first_run,                \* the transcript and the output of the first invocation
    history,                  \* the calls prove() made so far in this invocation, in order
    \* ---- GrandProductWitness and its benchmark (benches/prodcheck.rs)
    g_log_width,  \* P::LOG_WIDTH of the packed field the witness is built over
    g_args,       \* the arguments of the last call of GrandProductWitness::new
    g_result,     \* what that call returned: Ok(witness) or Err(error)
    g_ret,        \* the last query made on the witness, and what it returned
    g_claim,      \* the GrandProductClaim the benchmark built
    g_bench,      \* the benchmark closure: "idle", "claimed" or "panicked"
    \* ---- the batch of grand-product claims of bench_gpa (benches/prodcheck.rs)
    b_input,      \* LOG_WIDTH, n_vars, the numerator and the number of claims
    b_worker,     \* what each parallel worker of the map is at, and its witness
    b_slots,      \* the results of the workers, by index of the parallel iterator
    b_finished,   \* the workers in the order they finished
    b_pc,         \* the closure: "idle", "map", "batch_prove", "done" or "panicked"
    b_lists,      \* gpa_witnesses and gpa_claims, once collected and unzipped
    b_transcript  \* the prover transcript batch_prove writes to

c_vars == <<c_args, c_result, c_ret>>

d_vars == <<oracles, claims, transcript, pc, evalcheck_prover, new_bivariate_sumchecks,
            new_mlechecks, new_evalcheck_claims, rounds, output, run, first_run,
            history>>

g_vars == <<g_log_width, g_args, g_result, g_ret, g_claim, g_bench>>

b_vars == <<b_input, b_worker, b_slots, b_finished, b_pc, b_lists, b_transcript>>

vars == <<c_vars, d_vars, g_vars, b_vars>>

\* ------------------------------------------------------------------------
\* Bounds of the model
\* ------------------------------------------------------------------------
MaxNVars == 1       \* n_vars of an oracle ranges over 0..MaxNVars
MaxLevel == 2       \* binary tower levels range over 0..MaxLevel
MaxArity == 2       \* arities and inner counts range over 0..MaxArity
MaxDegree == 1      \* composition degrees range over 0..MaxDegree
MaxOracles == 3     \* the oracle set holds the oracles 1..MaxOracles
MaxClaims == 2      \* the driver is handed at most MaxClaims initial claims
MaxGpaVars == 2     \* a grand-product witness has at most MaxGpaVars variables
MaxBatchVars == 1   \* the witnesses of a batch have at most MaxBatchVars variables
MaxGpaClaims == 2   \* a batch holds at most MaxGpaClaims grand-product claims

None == [tag |-> "None"]

\* ------------------------------------------------------------------------
\* General helpers
\* ------------------------------------------------------------------------
SeqsUpTo(S, n) == UNION {[1..k -> S] : k \in 0..n}

Range(s) == {s[i] : i \in 1..Len(s)}

MaxNat(a, b) == IF a >= b THEN a ELSE b

\* Iterator::max over a sequence of naturals: None on an empty iterator.
RECURSIVE IterMax(_)
IterMax(s) ==
    IF s = <<>> THEN None
    ELSE LET rest == IterMax(Tail(s))
         IN  IF rest = None THEN [tag |-> "Some", value |-> Head(s)]
             ELSE [tag |-> "Some", value |-> MaxNat(Head(s), rest.value)]

UnwrapOr(opt, default) == IF opt = None THEN default ELSE opt.value

\* ========================================================================
\* CompositePolyOracle
\* ========================================================================

\* A MultilinearPolyOracle as far as CompositePolyOracle reads it. The inner
\* oracles come from an oracle set that holds one committed oracle for every
\* pair of n_vars and tower level, with ids in the order of registration (as
\* the add_committed calls of composite.rs 117-124 yield them).
MultilinearPolyOracle ==
    {[id |-> n * (MaxLevel + 1) + l, n_vars |-> n, binary_tower_level |-> l] :
        n \in 0..MaxNVars, l \in 0..MaxLevel}

\* A CompositionPoly as far as CompositePolyOracle reads it.
CompositionPoly ==
    [n_vars : 0..MaxArity, degree : 0..MaxDegree, binary_tower_level : 0..MaxLevel]

Ok(v) == [tag |-> "Ok", value |-> v]
Err(e) == [tag |-> "Err", error |-> e]

CompositionMismatch == [kind |-> "CompositionMismatch"]
IncorrectNumberOfVariables(expected) ==
    [kind |-> "IncorrectNumberOfVariables", expected |-> expected]

\* The loop over the inner oracles (composite.rs 27-31): the first oracle whose
\* n_vars differs from the declared n_vars ends the call with an error.
RECURSIVE CheckInnerNVars(_, _)
CheckInnerNVars(n_vars, inner) ==
    IF inner = <<>> THEN None
    ELSE IF Head(inner).n_vars # n_vars
         THEN Err(IncorrectNumberOfVariables(n_vars))
         ELSE CheckInnerNVars(n_vars, Tail(inner))

\* Mutant: the arity check is made after the loop over the inner oracles.
CompositePolyOracle_new_ChecksSwapped(n_vars, inner, composition) ==
    IF CheckInnerNVars(n_vars, inner) # None
    THEN CheckInnerNVars(n_vars, inner)
    ELSE IF Len(inner) # composition.n_vars
         THEN Err(CompositionMismatch)
         ELSE Ok([n_vars |-> n_vars, inner |-> inner, composition |-> composition])

\* Mutant: only the first inner oracle's n_vars is compared.
CompositePolyOracle_new_FirstOnly(n_vars, inner, composition) ==
    IF Len(inner) # composition.n_vars
    THEN Err(CompositionMismatch)
    ELSE IF inner # <<>> /\ Head(inner).n_vars # n_vars
         THEN Err(IncorrectNumberOfVariables(n_vars))
         ELSE Ok([n_vars |-> n_vars, inner |-> inner, composition |-> composition])

\* Mutant: the loop over the inner oracles is missing.
CompositePolyOracle_new_NoLoop(n_vars, inner, composition) ==
    IF Len(inner) # composition.n_vars
    THEN Err(CompositionMismatch)
    ELSE Ok([n_vars |-> n_vars, inner |-> inner, composition |-> composition])

\* CompositePolyOracle::new (composite.rs 19-37).
CompositePolyOracle_new(n_vars, inner, composition) ==
    IF Len(inner) # composition.n_vars
    THEN Err(CompositionMismatch)
    ELSE IF CheckInnerNVars(n_vars, inner) # None
         THEN CheckInnerNVars(n_vars, inner)
         ELSE Ok([n_vars |-> n_vars, inner |-> inner, composition |-> composition])

\* Mutant: the degree reported is the composition's arity.
max_individual_degree_Arity(self) == self.composition.n_vars

\* CompositePolyOracle::max_individual_degree (composite.rs 39-42).
max_individual_degree(self) == self.composition.degree

n_multilinears(self) == self.composition.n_vars

\* Mutant: the composition's own level is left out of the maximum.
binary_tower_level_InnerOnly(self) ==
    UnwrapOr(IterMax([i \in 1..Len(self.inner) |-> self.inner[i].binary_tower_level]), 0)

\* CompositePolyOracle::binary_tower_level (composite.rs 48-56).
binary_tower_level(self) ==
    MaxNat(self.composition.binary_tower_level,
           UnwrapOr(IterMax([i \in 1..Len(self.inner) |->
                                self.inner[i].binary_tower_level]), 0))

n_vars_of(self) == self.n_vars

inner_polys_oracle_ids(self) == [i \in 1..Len(self.inner) |-> self.inner[i].id]

inner_polys(self) == self.inner

composition_of(self) == self.composition

\* TestByteComposition (composite.rs 83-110): v0 * v1 + 125 * v2, of arity 3 and
\* degree 1, over BinaryField8b (tower level 3).
TestByteComposition == [n_vars |-> 3, degree |-> 1, binary_tower_level |-> 3]

\* ---- the state machine of one CompositePolyOracle
CompositeIdle ==
    /\ c_args = None
    /\ c_result = None
    /\ c_ret = None

DriverIdle ==
    /\ oracles = <<>>
    /\ claims = <<>>
    /\ transcript = <<>>
    /\ pc = "idle"
    /\ evalcheck_prover = None
    /\ new_bivariate_sumchecks = <<>>
    /\ new_mlechecks = <<>>
    /\ new_evalcheck_claims = <<>>
    /\ rounds = 0
    /\ output = None
    /\ run = 1
    /\ first_run = None
    /\ history = <<>>

GpaIdle ==
    /\ g_log_width = 0
    /\ g_args = None
    /\ g_result = None
    /\ g_ret = None
    /\ g_claim = None
    /\ g_bench = "idle"

BatchIdle ==
    /\ b_input = None
    /\ b_worker = <<>>
    /\ b_slots = <<>>
    /\ b_finished = <<>>
    /\ b_pc = "idle"
    /\ b_lists = None
    /\ b_transcript = <<>>

InitComposite == CompositeIdle /\ DriverIdle /\ GpaIdle /\ BatchIdle

\* A caller calls CompositePolyOracle::new.
New(n_vars, inner, composition) ==
    /\ c_result = None
    /\ c_args' = [n_vars |-> n_vars, inner |-> inner, composition |-> composition]
    /\ c_result' = CompositePolyOracle_new(n_vars, inner, composition)
    /\ c_ret' = None
    /\ UNCHANGED <<d_vars, g_vars, b_vars>>

Query(method, value) ==
    /\ c_result.tag = "Ok"
    /\ c_ret' = [method |-> method, value |-> value]
    /\ UNCHANGED <<c_args, c_result>>
    /\ UNCHANGED <<d_vars, g_vars, b_vars>>

QueryMaxIndividualDegree ==
    Query("max_individual_degree", max_individual_degree(c_result.value))

QueryNMultilinears == Query("n_multilinears", n_multilinears(c_result.value))

QueryBinaryTowerLevel == Query("binary_tower_level", binary_tower_level(c_result.value))

QueryNVars == Query("n_vars", n_vars_of(c_result.value))

QueryInnerPolysOracleIds ==
    Query("inner_polys_oracle_ids", inner_polys_oracle_ids(c_result.value))

QueryInnerPolys == Query("inner_polys", inner_polys(c_result.value))

QueryComposition == Query("composition", composition_of(c_result.value))

NextComposite ==
    \/ /\ c_result = None
       /\ \E n \in 0..MaxNVars, inner \in SeqsUpTo(MultilinearPolyOracle, MaxArity),
             comp \in CompositionPoly : New(n, inner, comp)
    \/ QueryMaxIndividualDegree
    \/ QueryNMultilinears
    \/ QueryBinaryTowerLevel
    \/ QueryNVars
    \/ QueryInnerPolysOracleIds
    \/ QueryInnerPolys
    \/ QueryComposition

SpecComposite == InitComposite /\ [][NextComposite]_vars

\* ------------------------------------------------------------------------
\* Properties of CompositePolyOracle
\* ------------------------------------------------------------------------
InnerCountMatches(a) == Len(a.inner) = a.composition.n_vars

InnerNVarsMatch(a) == \A i \in 1..Len(a.inner) : a.inner[i].n_vars = a.n_vars

\* C1: CompositePolyOracle::new returns a value if and only if the number of
\* inner oracles equals the composition's arity and every inner oracle's
\* n_vars equals the declared n_vars; the value returned is fully formed (it
\* holds the three arguments), and in every other case the call returns an
\* error that carries no value.
C1_NewOkIffValid ==
    c_args # None =>
        LET valid == InnerCountMatches(c_args) /\ InnerNVarsMatch(c_args)
        IN  /\ (c_result.tag = "Ok") <=> valid
            /\ valid => c_result = Ok(c_args)
            /\ ~valid => c_result.tag = "Err" /\ DOMAIN c_result = {"tag", "error"}

C1_Witness ==
    /\ c_args # None
    /\ c_result.tag = "Ok"
    /\ Len(c_args.inner) = 2

\* C2: whenever the number of inner oracles differs from the composition's
\* arity, CompositePolyOracle::new fails with CompositionMismatch, whatever
\* n_vars and the inner oracles are.
C2_CountMismatchError ==
    (c_args # None /\ ~InnerCountMatches(c_args)) => c_result = Err(CompositionMismatch)

C2_Witness ==
    /\ c_args # None
    /\ ~InnerCountMatches(c_args)
    /\ ~InnerNVarsMatch(c_args)
    /\ c_result = Err(CompositionMismatch)

\* C3 as stated: whenever some inner oracle's n_vars differs from the declared
\* n_vars, the call fails with IncorrectNumberOfVariables, whatever the
\* composition's arity is.
C3_Original ==
    (c_args # None /\ ~InnerNVarsMatch(c_args))
        => c_result = Err(IncorrectNumberOfVariables(c_args.n_vars))

\* C3 (amended): whenever the number of inner oracles equals the composition's
\* arity and some inner oracle's n_vars differs from the declared n_vars, the
\* call fails with IncorrectNumberOfVariables (expected: the declared n_vars).
\* When the count differs too, the error is CompositionMismatch.
C3_NVarsMismatchError ==
    (c_args # None /\ InnerCountMatches(c_args) /\ ~InnerNVarsMatch(c_args))
        => c_result = Err(IncorrectNumberOfVariables(c_args.n_vars))

C3_Witness ==
    /\ c_args # None
    /\ InnerCountMatches(c_args)
    /\ Len(c_args.inner) = 2
    /\ c_args.inner[1].n_vars = c_args.n_vars
    /\ c_args.inner[2].n_vars # c_args.n_vars
    /\ c_result = Err(IncorrectNumberOfVariables(c_args.n_vars))

\* C4: binary_tower_level() of a constructed composite is the maximum of the
\* composition's own level and the inner oracles' levels: it is one of these
\* levels and none of them exceeds it; with no inner oracle it is the
\* composition's level.
C4_TowerLevelIsMax ==
    (c_ret # None /\ c_ret.method = "binary_tower_level") =>
        LET self == c_result.value
            levels == {self.composition.binary_tower_level}
                          \cup {self.inner[i].binary_tower_level : i \in 1..Len(self.inner)}
        IN  /\ c_ret.value \in levels
            /\ \A l \in levels : l <= c_ret.value
            /\ self.inner = <<>> => c_ret.value = self.composition.binary_tower_level

C4_Witness ==
    /\ c_ret # None
    /\ c_ret.method = "binary_tower_level"
    /\ Len(c_result.value.inner) = 2
    /\ c_result.value.composition.binary_tower_level > c_result.value.inner[1].binary_tower_level
    /\ c_result.value.composition.binary_tower_level > c_result.value.inner[2].binary_tower_level
    /\ c_ret.value > 0

\* What each query method returns on the value self.
QueryResult(self, method) ==
    CASE method = "max_individual_degree" -> self.composition.degree
      [] method = "n_multilinears" -> Len(self.inner)
      [] method = "binary_tower_level" -> binary_tower_level(self)
      [] method = "n_vars" -> self.n_vars
      [] method = "inner_polys_oracle_ids" -> [i \in 1..Len(self.inner) |-> self.inner[i].id]
      [] method = "inner_polys" -> self.inner
      [] method = "composition" -> self.composition

\* C11: every CompositePolyOracle that exists holds, after any sequence of
\* queries, the three arguments it was constructed from (the queries change
\* none of n_vars, inner and composition); its n_vars equals the n_vars of
\* every inner oracle and its inner count equals n_multilinears(), the
\* composition's arity; max_individual_degree() is the composition's degree,
\* and every query returns the field or derived value it is named after.
C11_CompositeInvariant ==
    c_result.tag = "Ok" =>
        LET self == c_result.value
        IN  /\ self = c_args
            /\ \A i \in 1..Len(self.inner) : self.inner[i].n_vars = self.n_vars
            /\ Len(self.inner) = n_multilinears(self)
            /\ n_multilinears(self) = self.composition.n_vars
            /\ c_ret # None => c_ret.value = QueryResult(self, c_ret.method)

C11_Witness ==
    /\ c_result.tag = "Ok"
    /\ c_ret # None
    /\ c_ret.method = "max_individual_degree"
    /\ Len(c_result.value.inner) = 2
    /\ c_result.value.composition.degree # c_result.value.composition.n_vars
    /\ c_ret.value = c_result.value.composition.degree

\* C19: every error CompositePolyOracle::new returns carries the expected
\* count, the actual count and the identity of the offending oracle. (The
\* code returns CompositionMismatch without any data, and
\* IncorrectNumberOfVariables with the expected n_vars alone.)
C19_ErrorsCarryContext ==
    c_result.tag = "Err" =>
        {"expected", "actual", "oracle"} \subseteq DOMAIN c_result.error

\* ========================================================================
\* The greedy evalcheck driver
\* ========================================================================

\* ---- the oracle set: an arena of records indexed by OracleId; an inner oracle
\* always has a smaller id than the oracle that refers to it, so the graph is
\* acyclic by construction.
OracleIds == 1..MaxOracles

Committed == [kind |-> "Committed", inner |-> <<>>]
Shifted(j) == [kind |-> "Shifted", inner |-> <<j>>]
Composite(inner) == [kind |-> "Composite", inner |-> inner]

\* The composites have the shape of TestByteComposition: three inner oracles
\* (composite.rs 86-88), here <<a, b, b>> with a <= b. The first oracle of the
\* set may also be a composite without inner oracles, which
\* CompositePolyOracle::new accepts for a composition of arity 0
\* (composite.rs 24-36).
OracleVariants(id) ==
    {Committed}
        \cup (IF id = 1 THEN {Composite(<<>>)} ELSE {})
        \cup {Shifted(j) : j \in 1..(id - 1)}
        \cup UNION {{Composite(<<a, b, b>>) : b \in a..(id - 1)} : a \in 1..(id - 1)}

OracleSets ==
    {os \in [OracleIds -> UNION {OracleVariants(id) : id \in OracleIds}] :
        \A id \in OracleIds : os[id] \in OracleVariants(id)}

\* The length of the longest path from an oracle down to an oracle without
\* inner oracles, counted in edges: a committed oracle has depth 0.
RECURSIVE Depth(_, _)
Depth(os, id) ==
    IF os[id].inner = <<>> THEN 0
    ELSE 1 + CHOOSE d \in 0..MaxOracles :
                 /\ \E i \in 1..Len(os[id].inner) : Depth(os, os[id].inner[i]) = d
                 /\ \A i \in 1..Len(os[id].inner) : Depth(os, os[id].inner[i]) <= d

DagDepth(os) ==
    CHOOSE d \in 0..MaxOracles :
        /\ \E id \in DOMAIN os : Depth(os, id) = d
        /\ \A id \in DOMAIN os : Depth(os, id) <= d

\* ---- evaluation claims
\* The evaluation of an oracle's polynomial at a point, as the witness index
\* gives it: kept symbolic, the driver never computes with it.
Evaluate(id, point) == [of |-> id, at |-> point]

EvalcheckMultilinearClaim(id, point) ==
    [oracle |-> id, point |-> point, value |-> Evaluate(id, point)]

\* The point of every initial claim.
InitialPoint == 0

\* The initial claims: at most MaxClaims claims, on distinct oracles, in any order.
InitialClaims ==
    {cs \in SeqsUpTo({EvalcheckMultilinearClaim(id, InitialPoint) : id \in OracleIds},
                     MaxClaims) :
        \A i, j \in 1..Len(cs) : i # j => cs[i] # cs[j]}

\* ---- the transcript: an append-only log of writes and derived challenges
Write(by, about) == [op |-> "write", by |-> by, about |-> about]
Derive(by, challenge) == [op |-> "derive", by |-> by, challenge |-> challenge]

\* A challenge is derived from everything written so far; it is never the
\* initial point.
Challenge(tr) == Len(tr)

\* The oracles of a sequence, each once, in the order of their first occurrence.
RECURSIVE Distinct(_)
Distinct(s) ==
    IF s = <<>> THEN <<>>
    ELSE LET front == Distinct(SubSeq(s, 1, Len(s) - 1))
         IN  IF s[Len(s)] \in Range(front) THEN front ELSE Append(front, s[Len(s)])

RECURSIVE Flatten(_)
Flatten(ss) == IF ss = <<>> THEN <<>> ELSE Head(ss) \o Flatten(Tail(ss))

\* ---- the EvalcheckProver
EvalcheckProver_new ==
    [committed_eval_claims |-> <<>>,
     new_bivariate_sumchecks_constraints |-> <<>>,
     new_mlechecks_constraints |-> <<>>,
     memoized_data |-> {}]

\* Mutant: every claim is recorded as a committed evaluation claim.
ProveClaim_RecordsAll(os, st, c) ==
    [st EXCEPT !.prover.committed_eval_claims = Append(@, c)]

\* EvalcheckProver::prove for one claim: a claim on a committed oracle is
\* recorded, with no transcript interaction; a claim on a virtual oracle is
\* written to the transcript and enqueues a constraint: an MLE-check unit bound to
\* the claim's point for a composite, a bivariate sumcheck otherwise.
ProveClaim(os, st, c) ==
    LET kind == os[c.oracle].kind
        prover == st.prover
    IN  IF kind = "Committed"
        THEN [st EXCEPT !.prover.committed_eval_claims = Append(@, c)]
        ELSE IF kind = "Composite"
        THEN [prover |-> [prover EXCEPT
                  !.new_mlechecks_constraints =
                      Append(@, [eq_ind_challenges |-> c.point,
                                 constraint_set |-> [oracle |-> c.oracle,
                                                     oracle_ids |-> Distinct(os[c.oracle].inner)]]),
                  !.memoized_data = @ \cup {<<c.oracle, c.point>>}],
              transcript |-> Append(st.transcript, Write("evalcheck", c))]
        ELSE [prover |-> [prover EXCEPT
                  !.new_bivariate_sumchecks_constraints =
                      Append(@, [oracle |-> c.oracle,
                                 oracle_ids |-> Distinct(os[c.oracle].inner)]),
                  !.memoized_data = @ \cup {<<c.oracle, c.point>>}],
              transcript |-> Append(st.transcript, Write("evalcheck", c))]

\* EvalcheckProver::prove: the claims are consumed in order.
RECURSIVE EvalcheckProver_prove(_, _, _)
EvalcheckProver_prove(os, st, cs) ==
    IF cs = <<>> THEN st
    ELSE EvalcheckProver_prove(os, ProveClaim(os, st, Head(cs)), Tail(cs))

\* prove_bivariate_sumchecks_with_switchover: one sumcheck over the whole batch;
\* its messages are written, one challenge point is derived, and a claim at that
\* point is returned for every constituent oracle of every constraint.
prove_bivariate_sumchecks_with_switchover(batch, tr) ==
    LET written == Append(tr, Write("bivariate_sumcheck",
                                    [i \in 1..Len(batch) |-> batch[i].oracle]))
        r == Challenge(written)
    IN  [transcript |-> Append(written, Derive("bivariate_sumcheck", r)),
         claims |-> Flatten([i \in 1..Len(batch) |->
                        [k \in 1..Len(batch[i].oracle_ids) |->
                            EvalcheckMultilinearClaim(batch[i].oracle_ids[k], r)]])]

\* prove_mlecheck_with_switchover: one MLE-check for one unit; the folded slices
\* of its constituent oracles at the equality indicator's point are memoized.
prove_mlecheck_with_switchover(unit, memoized_data, tr) ==
    LET ids == unit.constraint_set.oracle_ids
        written == Append(tr, Write("mlecheck", <<unit.constraint_set.oracle>>))
        r == Challenge(written)
    IN  [transcript |-> Append(written, Derive("mlecheck", r)),
         memoized_data |-> memoized_data
                               \cup {<<ids[k], unit.eq_ind_challenges>> : k \in 1..Len(ids)},
         claims |-> [k \in 1..Len(ids) |-> EvalcheckMultilinearClaim(ids[k], r)]]

\* ---- greedy_evalcheck::prove, step by step
\* The loop is cut off after RoundCap rounds; a run never gets that far.
RoundCap == MaxOracles + 2

InitDriver ==
    /\ CompositeIdle
    /\ GpaIdle
    /\ BatchIdle
    /\ oracles \in OracleSets
    /\ claims \in InitialClaims
    /\ transcript = <<>>
    /\ pc = "start"
    /\ evalcheck_prover = None
    /\ new_bivariate_sumchecks = <<>>
    /\ new_mlechecks = <<>>
    /\ new_evalcheck_claims = <<>>
    /\ rounds = 0
    /\ output = None
    /\ run = 1
    /\ first_run = None
    /\ history = <<>>

\* One call prove() made: what it was given, what it returned, and what it
\* appended to the transcript (tr_after is the transcript after the call).
Call(op, round, input, out, tr_after) ==
    [op |-> op, round |-> round, input |-> input, output |-> out,
     wrote |-> SubSeq(tr_after, Len(transcript) + 1, Len(tr_after))]

\* The constraints a prove() call added to a queue of the prover.
Enqueued(before, after) == SubSeq(after, Len(before) + 1, Len(after))

QueuesOf(prover) ==
    [bivariate |-> prover.new_bivariate_sumchecks_constraints,
     mlechecks |-> prover.new_mlechecks_constraints]

\* Mutant: the claims of a reduction replace the claims collected so far.
ExtendClaims_Assign(acc, new) == new

\* Vec::extend (prove.rs 97, 131).
ExtendClaims(acc, new) == acc \o new

\* Mutant: the first committed claim is left in the prover.
committed_claims_SkipFirst(prover) ==
    SubSeq(prover.committed_eval_claims, 2, Len(prover.committed_eval_claims))

\* committed_eval_claims_mut().drain(..).collect() (prove.rs 144-147).
committed_claims(prover) == prover.committed_eval_claims

\* Mutant: the output holds memoized data created at the return.
GreedyEvalcheckProveOutput_NewMemo(eval_claims, memoized_data) ==
    [eval_claims |-> eval_claims, memoized_data |-> {}]

\* The value prove() returns (prove.rs 149-152).
GreedyEvalcheckProveOutput(eval_claims, memoized_data) ==
    [eval_claims |-> eval_claims, memoized_data |-> memoized_data]

\* Mutant: the error of a call is recorded and the driver goes on.
Fails_GoesOn(step) ==
    /\ pc' = pc
    /\ output' = Err([step |-> step, round |-> rounds])
    /\ history' = Append(history, Call("failed", rounds, step, <<>>, transcript))
    /\ UNCHANGED <<oracles, claims, transcript, evalcheck_prover, new_bivariate_sumchecks,
                   new_mlechecks, new_evalcheck_claims, rounds, run, first_run>>

\* A call made with `?` returned an error: prove() returns it at once.
Fails(step) ==
    /\ pc' = "failed"
    /\ output' = Err([step |-> step, round |-> rounds])
    /\ history' = Append(history, Call("failed", rounds, step, <<>>, transcript))
    /\ UNCHANGED <<oracles, claims, transcript, evalcheck_prover, new_bivariate_sumchecks,
                   new_mlechecks, new_evalcheck_claims, rounds, run, first_run>>

\* Mutant: the vector of new claims is created once, before the loop.
FreshClaimsKept(previous) == previous

\* The vector of new claims is created empty in every round (prove.rs 72-73).
FreshClaims(previous) == <<>>

\* Mutant: the MLE-check units are reduced in no fixed order.
NextMlecheckAny(units) == 1..Len(units)

\* Mutant: the MLE-check units are reduced from the back of the queue.
NextMlecheckLast(units) == {Len(units)}

\* The for loop takes the units in queue order (prove.rs 116-120).
NextMlecheck(units) == {1}

\* Mutant: the test that leaves the loop is missing.
LoopBreaksNever(new_claims) == FALSE

\* Mutant: the loop is left after the first round, whatever it produced.
LoopBreaksAlways(new_claims) == TRUE

\* The loop is left when the round produced no claim (prove.rs 137-139).
LoopBreaks(new_claims) == new_claims = <<>>

\* Mutant: the loop ends after its first iteration.
Remove_All(s, i) == <<>>

\* The units the for loop has still to take (prove.rs 116).
Remove(s, i) == SubSeq(s, 1, i - 1) \o SubSeq(s, i + 1, Len(s))

\* prove.rs 45-57: the prover is created and the initial claims are proved.
Seed ==
    /\ pc = "start"
    /\ \/ Fails("prove")
       \/ LET st == EvalcheckProver_prove(
                        oracles, [prover |-> EvalcheckProver_new, transcript |-> transcript],
                        claims)
          IN  /\ evalcheck_prover' = st.prover
              /\ transcript' = st.transcript
              /\ pc' = "take_bivariate"
              /\ history' = Append(history,
                     Call("prove", rounds, claims,
                          [bivariate |-> Enqueued(<<>>, QueuesOf(st.prover).bivariate),
                           mlechecks |-> Enqueued(<<>>, QueuesOf(st.prover).mlechecks)],
                          st.transcript))
              /\ UNCHANGED <<oracles, claims, new_bivariate_sumchecks, new_mlechecks,
                             new_evalcheck_claims, rounds, output, run, first_run>>
    /\ UNCHANGED <<c_vars, g_vars, b_vars>>

\* prove.rs 59-68: a round begins; the bivariate queue is drained.
TakeBivariate ==
    /\ pc = "take_bivariate"
    /\ rounds < RoundCap
    /\ \/ Fails("take_new_bivariate_sumchecks_constraints")
       \/ /\ new_bivariate_sumchecks' =
                 evalcheck_prover.new_bivariate_sumchecks_constraints
          /\ evalcheck_prover' =
                 [evalcheck_prover EXCEPT !.new_bivariate_sumchecks_constraints = <<>>]
          /\ rounds' = rounds + 1
          /\ pc' = "take_mlechecks"
          /\ history' = Append(history,
                 Call("take_new_bivariate_sumchecks_constraints", rounds + 1, <<>>,
                      evalcheck_prover.new_bivariate_sumchecks_constraints, transcript))
          /\ UNCHANGED <<oracles, claims, transcript, new_mlechecks, new_evalcheck_claims,
                         output, run, first_run>>
    /\ UNCHANGED <<c_vars, g_vars, b_vars>>

\* prove.rs 70-73: the MLE-check queue is drained; the round's claims start empty.
TakeMlechecks ==
    /\ pc = "take_mlechecks"
    /\ \/ Fails("take_new_mlechecks_constraints")
       \/ /\ new_mlechecks' = evalcheck_prover.new_mlechecks_constraints
          /\ evalcheck_prover' =
                 [evalcheck_prover EXCEPT !.new_mlechecks_constraints = <<>>]
          /\ new_evalcheck_claims' = FreshClaims(new_evalcheck_claims)
          /\ pc' = "reduce_bivariate"
          /\ history' = Append(history,
                 Call("take_new_mlechecks_constraints", rounds, <<>>,
                      evalcheck_prover.new_mlechecks_constraints, transcript))
          /\ UNCHANGED <<oracles, claims, transcript, new_bivariate_sumchecks, rounds,
                         output, run, first_run>>
    /\ UNCHANGED <<c_vars, g_vars, b_vars>>

\* prove.rs 75-99: one bivariate reduction over the whole batch, if there is one.
ReduceBivariate ==
    /\ pc = "reduce_bivariate"
    /\ IF new_bivariate_sumchecks # <<>>
       THEN \/ Fails("prove_bivariate_sumchecks_with_switchover")
            \/ LET r == prove_bivariate_sumchecks_with_switchover(
                            new_bivariate_sumchecks, transcript)
               IN  /\ transcript' = r.transcript
                   /\ new_evalcheck_claims' = ExtendClaims(new_evalcheck_claims, r.claims)
                   /\ pc' = "reduce_mlechecks"
                   /\ history' = Append(history,
                          Call("prove_bivariate_sumchecks_with_switchover", rounds,
                               new_bivariate_sumchecks, r.claims, r.transcript))
                   /\ UNCHANGED <<oracles, claims, evalcheck_prover,
                                  new_bivariate_sumchecks, new_mlechecks, rounds, output,
                                  run, first_run>>
       ELSE /\ pc' = "reduce_mlechecks"
            /\ UNCHANGED <<oracles, claims, transcript, evalcheck_prover,
                           new_bivariate_sumchecks, new_mlechecks, new_evalcheck_claims,
                           rounds, output, run, first_run, history>>
    /\ UNCHANGED <<c_vars, g_vars, b_vars>>

\* prove.rs 116-132: one iteration of the loop over the drained MLE-check units.
ReduceMlecheck ==
    /\ pc = "reduce_mlechecks"
    /\ new_mlechecks # <<>>
    /\ \/ Fails("prove_mlecheck_with_switchover")
       \/ \E i \in NextMlecheck(new_mlechecks) :
              LET r == prove_mlecheck_with_switchover(
                           new_mlechecks[i], evalcheck_prover.memoized_data, transcript)
              IN  /\ transcript' = r.transcript
                  /\ evalcheck_prover' =
                         [evalcheck_prover EXCEPT !.memoized_data = r.memoized_data]
                  /\ new_evalcheck_claims' = ExtendClaims(new_evalcheck_claims, r.claims)
                  /\ new_mlechecks' = Remove(new_mlechecks, i)
                  /\ history' = Append(history,
                         Call("prove_mlecheck_with_switchover", rounds,
                              new_mlechecks[i], r.claims, r.transcript))
                  /\ UNCHANGED <<oracles, claims, pc, new_bivariate_sumchecks, rounds,
                                 output, run, first_run>>
    /\ UNCHANGED <<c_vars, g_vars, b_vars>>

\* prove.rs 137-141: the round produced claims; they are proved and the loop goes on.
ProveNew ==
    /\ pc = "reduce_mlechecks"
    /\ new_mlechecks = <<>>
    /\ ~LoopBreaks(new_evalcheck_claims)
    /\ \/ Fails("prove")
       \/ LET st == EvalcheckProver_prove(
                        oracles, [prover |-> evalcheck_prover, transcript |-> transcript],
                        new_evalcheck_claims)
          IN  /\ evalcheck_prover' = st.prover
              /\ transcript' = st.transcript
              /\ pc' = "take_bivariate"
              /\ history' = Append(history,
                     Call("prove", rounds, new_evalcheck_claims,
                          [bivariate |-> Enqueued(QueuesOf(evalcheck_prover).bivariate,
                                                  QueuesOf(st.prover).bivariate),
                           mlechecks |-> Enqueued(QueuesOf(evalcheck_prover).mlechecks,
                                                  QueuesOf(st.prover).mlechecks)],
                          st.transcript))
              /\ UNCHANGED <<oracles, claims, new_bivariate_sumchecks, new_mlechecks,
                             new_evalcheck_claims, rounds, output, run, first_run>>
    /\ UNCHANGED <<c_vars, g_vars, b_vars>>

\* prove.rs 137-152: the round produced nothing; the committed claims are drained
\* from the prover and returned with the memoized data.
Finish ==
    /\ pc = "reduce_mlechecks"
    /\ new_mlechecks = <<>>
    /\ LoopBreaks(new_evalcheck_claims)
    /\ output' = Ok(GreedyEvalcheckProveOutput(committed_claims(evalcheck_prover),
                                                evalcheck_prover.memoized_data))
    /\ evalcheck_prover' = [evalcheck_prover EXCEPT !.committed_eval_claims = <<>>]
    /\ pc' = "done"
    /\ history' = Append(history,
           Call("return", rounds, <<>>, committed_claims(evalcheck_prover), transcript))
    /\ UNCHANGED <<oracles, claims, transcript, new_bivariate_sumchecks, new_mlechecks,
                   new_evalcheck_claims, rounds, run, first_run>>
    /\ UNCHANGED <<c_vars, g_vars, b_vars>>

\* The caller runs the driver again: the same oracle set, the same initial claims,
\* a transcript in the same initial state, a new EvalcheckProver.
Rerun ==
    /\ pc = "done"
    /\ run = 1
    /\ first_run' = [transcript |-> transcript, output |-> output, rounds |-> rounds]
    /\ run' = 2
    /\ transcript' = <<>>
    /\ pc' = "start"
    /\ evalcheck_prover' = None
    /\ new_bivariate_sumchecks' = <<>>
    /\ new_mlechecks' = <<>>
    /\ new_evalcheck_claims' = <<>>
    /\ rounds' = 0
    /\ output' = None
    /\ history' = <<>>
    /\ UNCHANGED <<oracles, claims>>
    /\ UNCHANGED <<c_vars, g_vars, b_vars>>

NextDriver ==
    \/ Seed
    \/ TakeBivariate
    \/ TakeMlechecks
    \/ ReduceBivariate
    \/ ReduceMlecheck
    \/ ProveNew
    \/ Finish
    \/ Rerun

SpecDriver == InitDriver /\ [][NextDriver]_vars

\* ------------------------------------------------------------------------
\* Properties of the greedy evalcheck driver
\* ------------------------------------------------------------------------
Returned == pc \in {"done", "failed"}

\* The depth of the deepest oracle an initial claim is made on (0 without claims).
ClaimedDepth ==
    IF claims = <<>> THEN 0
    ELSE CHOOSE d \in 0..MaxOracles :
             /\ \E i \in 1..Len(claims) : Depth(oracles, claims[i].oracle) = d
             /\ \A i \in 1..Len(claims) : Depth(oracles, claims[i].oracle) <= d

\* C5 as stated: on an oracle DAG of depth d (the longest path, in edges, from an
\* oracle down to an oracle without inner oracles) the loop of the driver runs at
\* most d rounds.
C5_Original == rounds <= DagDepth(oracles)

\* C5 (amended): on an oracle DAG of depth d the driver returns within d + 1
\* rounds of its loop: the body of the loop runs before the loop tests whether
\* the round produced a claim, so the round that produces none and leaves the
\* loop is counted as well. A run that returns Ok has
\* made exactly one round more than the depth of the deepest oracle it was
\* handed a claim on. Until it returns the driver always has a next step.
C5_TerminatesWithinDepthPlusOne ==
    /\ rounds <= DagDepth(oracles) + 1
    /\ pc = "done" => rounds = ClaimedDepth + 1
    /\ Returned \/ ENABLED NextDriver

C5_Witness ==
    /\ pc = "done"
    /\ DagDepth(oracles) = 2
    /\ rounds = 3

\* C6: whenever the driver returns Ok, every claim of the returned eval_claims is
\* on a committed oracle; no claim on a virtual oracle is returned.
C6_OnlyCommittedClaims ==
    pc = "done" =>
        \A i \in 1..Len(output.value.eval_claims) :
            oracles[output.value.eval_claims[i].oracle].kind = "Committed"

C6_Witness ==
    /\ pc = "done"
    /\ \E i \in 1..Len(claims) : oracles[claims[i].oracle].kind # "Committed"
    /\ Len(output.value.eval_claims) >= 2

C10_Example ==
    /\ LET L == [n_vars |-> 3, binary_tower_level |-> 0]
       IN  CompositePolyOracle_new(3, <<L, L, L>>, TestByteComposition).tag = "Ok"
    /\ oracles[1] = Committed
    /\ oracles[2] = Composite(<<1, 1, 1>>)
    /\ claims = <<EvalcheckMultilinearClaim(2, InitialPoint)>>

TakeBivariateOp == "take_new_bivariate_sumchecks_constraints"
TakeMlechecksOp == "take_new_mlechecks_constraints"
ReduceBivariateOp == "prove_bivariate_sumchecks_with_switchover"
ReduceMlecheckOp == "prove_mlecheck_with_switchover"

\* The calls made in round k of the loop, in the order they were made.
RoundCalls(k) ==
    SelectSeq(history, LAMBDA e : e.round = k /\ e.op \notin {"failed", "return"})

\* The claims the reductions among the calls cs returned, in order.
ClaimsReturned(cs) ==
    Flatten([i \in 1..Len(cs) |->
                IF cs[i].op \in {ReduceBivariateOp, ReduceMlecheckOp}
                THEN cs[i].output ELSE <<>>])

\* The calls cs of one round are, in this order: the drain of the bivariate
\* queue, the drain of the MLE-check queue, one bivariate reduction over the whole
\* drained batch if it is not empty, one MLE-check reduction for every drained
\* unit in queue order, and prove on the claims the reductions returned.
RoundInOrder(cs) ==
    /\ Len(cs) >= 1 => cs[1].op = TakeBivariateOp
    /\ Len(cs) >= 2 => cs[2].op = TakeMlechecksOp
    /\ Len(cs) >= 3 =>
           LET biv == cs[1].output
               mle == cs[2].output
               nb == IF biv # <<>> THEN 1 ELSE 0
           IN  /\ Len(cs) <= 3 + nb + Len(mle)
               /\ nb = 1 => cs[3].op = ReduceBivariateOp /\ cs[3].input = biv
               /\ \A i \in 1..Len(mle) :
                      2 + nb + i <= Len(cs) =>
                          /\ cs[2 + nb + i].op = ReduceMlecheckOp
                          /\ cs[2 + nb + i].input = mle[i]
               /\ Len(cs) = 3 + nb + Len(mle) =>
                      /\ cs[Len(cs)].op = "prove"
                      /\ cs[Len(cs)].input = ClaimsReturned(cs)

\* What a call may write to the transcript.
WritesOwnMessages(e) ==
    \A i \in 1..Len(e.wrote) :
        e.wrote[i].by = CASE e.op = ReduceBivariateOp -> "bivariate_sumcheck"
                          [] e.op = ReduceMlecheckOp -> "mlecheck"
                          [] e.op = "prove" -> "evalcheck"
                          [] OTHER -> "nothing"

\* C12: in every round the driver drains the bivariate queue, drains the
\* MLE-check queue, makes one bivariate reduction over the whole drained batch
\* if it is not empty, makes one MLE-check reduction per drained unit in queue
\* order, and then calls prove on the claims these reductions returned. The
\* rounds follow one another, and the transcript is the concatenation of what
\* the calls wrote, in the order of the calls: within a round the writes of the
\* bivariate reduction precede those of every MLE-check reduction, and the
\* writes of round k precede those of round k + 1.
C12_RoundOrder ==
    /\ \A k \in 1..rounds : RoundInOrder(RoundCalls(k))
    /\ \A i, j \in 1..Len(history) : i < j => history[i].round <= history[j].round
    /\ transcript = Flatten([i \in 1..Len(history) |-> history[i].wrote])
    /\ \A i \in 1..Len(history) : WritesOwnMessages(history[i])
    /\ (pc = "take_bivariate" /\ rounds >= 1) =>
           Len(RoundCalls(rounds)) =
               3 + (IF RoundCalls(rounds)[1].output # <<>> THEN 1 ELSE 0)
                 + Len(RoundCalls(rounds)[2].output)

\* A round with a bivariate reduction, an MLE-check reduction and prove, and the
\* writes of the first before the writes of the second in the transcript.
C12_Witness ==
    /\ pc = "done"
    /\ \E k \in 1..rounds :
           LET cs == RoundCalls(k)
           IN  /\ [i \in 1..Len(cs) |-> cs[i].op] =
                      <<TakeBivariateOp, TakeMlechecksOp, ReduceBivariateOp,
                        ReduceMlecheckOp, "prove">>
               /\ cs[5].wrote # <<>>
    /\ \E i, j \in 1..Len(transcript) :
           /\ i < j
           /\ transcript[i].by = "bivariate_sumcheck"
           /\ transcript[j].by = "mlecheck"

\* ---- leaving the loop
\* The two batches round k drained.
DrainedBivariate(k) == RoundCalls(k)[1].output

DrainedMlechecks(k) == RoundCalls(k)[2].output

\* Round k has made all its reductions: the loop has tested, or is about to
\* test, whether the round produced a claim.
ReductionsDone(k) ==
    \/ k < rounds
    \/ k = rounds /\ pc \in {"take_bivariate", "done"}
    \/ k = rounds /\ pc = "reduce_mlechecks" /\ new_mlechecks = <<>>

\* The driver left the loop in round k.
LeftLoopIn(k) == pc = "done" /\ k = rounds

\* The driver went on after round k: it called prove on the round's claims.
WentOnAfter(k) == k < rounds \/ (k = rounds /\ pc = "take_bivariate")

\* C13 as stated: the driver leaves the loop in a round if and only if the two
\* batches drained in that round are both empty; it never leaves while a
\* drained batch of the round was not empty.
C13_Original ==
    \A k \in 1..rounds :
        /\ LeftLoopIn(k) => DrainedBivariate(k) = <<>> /\ DrainedMlechecks(k) = <<>>
        /\ WentOnAfter(k) => DrainedBivariate(k) # <<>> \/ DrainedMlechecks(k) # <<>>

\* C13 (amended): the driver leaves the loop in a round if and only if the
\* reductions of that round returned no claim. So it leaves in a round whose
\* two drained batches are both empty and never runs another round after it;
\* and it leaves as well in a round that drained constraints whose reductions
\* returned no claim (constraints without constituent oracles).
C13_LeavesLoopIffNoNewClaims ==
    \A k \in 1..rounds :
        /\ LeftLoopIn(k) => ClaimsReturned(RoundCalls(k)) = <<>>
        /\ WentOnAfter(k) => ClaimsReturned(RoundCalls(k)) # <<>>
        /\ (ReductionsDone(k) /\ DrainedBivariate(k) = <<>> /\ DrainedMlechecks(k) = <<>>)
               => /\ ~WentOnAfter(k)
                  /\ pc = "reduce_mlechecks" => ENABLED Finish /\ ~ENABLED ProveNew
        /\ (k = rounds /\ pc = "reduce_mlechecks" /\ new_mlechecks = <<>>) =>
               /\ ENABLED Finish <=> ClaimsReturned(RoundCalls(k)) = <<>>
               /\ ENABLED ProveNew <=> ClaimsReturned(RoundCalls(k)) # <<>>

\* The driver left the loop in a round that had drained an MLE-check unit, and
\* in another run in a round after one that had drained both kinds.
C13_Witness ==
    /\ pc = "done"
    /\ rounds >= 2
    /\ DrainedMlechecks(rounds) # <<>>
    /\ DrainedBivariate(rounds - 1) # <<>>
    /\ ClaimsReturned(RoundCalls(rounds)) = <<>>

\* ---- the claims produced and the claims consumed
\* The calls of EvalcheckProver::prove made so far, in order.
ProveCalls == SelectSeq(history, LAMBDA e : e.op = "prove")

\* Every claim handed to prove so far, in the order of consumption.
Consumed == Flatten([i \in 1..Len(ProveCalls) |-> ProveCalls[i].input])

\* Every claim produced so far: the initial claims, then what the reductions
\* returned, in the order of production.
Produced == claims \o ClaimsReturned(history)

IsPrefix(s, t) == Len(s) <= Len(t) /\ s = SubSeq(t, 1, Len(s))

\* C14: in a run that returns Ok every evaluation claim is consumed exactly
\* once by EvalcheckProver::prove: the seeding call is given exactly the
\* initial claims, the call at the end of round k exactly the claims the
\* reductions of round k returned, each claim as it was produced; when the
\* driver returns, the sequence of claims consumed is the sequence of claims
\* produced, so none was dropped, duplicated or modified. Before the return
\* the claims consumed are the claims produced up to the last prove call.
C14_ClaimsConsumedOnce ==
    /\ IsPrefix(Consumed, Produced)
    /\ \A i \in 1..Len(ProveCalls) :
           /\ \A j \in 1..Len(ProveCalls) : i # j => ProveCalls[i].round # ProveCalls[j].round
           /\ ProveCalls[i].input =
                  IF ProveCalls[i].round = 0 THEN claims
                  ELSE ClaimsReturned(RoundCalls(ProveCalls[i].round))
    /\ pc = "done" =>
           /\ Consumed = Produced
           /\ Len(ProveCalls) = rounds

\* A run that returned Ok after a round in which a bivariate reduction and an
\* MLE-check reduction both returned claims.
C14_Witness ==
    /\ pc = "done"
    /\ Len(claims) = 2
    /\ \E k \in 1..rounds :
           LET cs == RoundCalls(k)
           IN  /\ Len(cs) = 5
               /\ cs[3].op = ReduceBivariateOp /\ cs[3].output # <<>>
               /\ cs[4].op = ReduceMlecheckOp /\ cs[4].output # <<>>
               /\ cs[5].input = cs[3].output \o cs[4].output

\* ---- failures
FallibleSteps ==
    {"prove", TakeBivariateOp, TakeMlechecksOp, ReduceBivariateOp, ReduceMlecheckOp}

\* The MLE-check units reduced so far in round k, in order.
UnitsReduced(k) ==
    LET cs == SelectSeq(RoundCalls(k), LAMBDA e : e.op = ReduceMlecheckOp)
    IN  [i \in 1..Len(cs) |-> cs[i].input]

\* C15: when a step of the driver fails (the seeding prove, a take_new_* call,
\* the bivariate reduction, an MLE-check reduction or a later prove), prove()
\* returns that error at once: the failing call is the last call it made, no
\* step follows it, the transcript holds what the calls before it wrote and
\* nothing else, the MLE-check units of the round that were not reduced before
\* the failure stay unreduced, and what is returned is the error alone, without
\* eval_claims and without memoized data. An error is returned in no other case.
C15_ErrorReturnedAtOnce ==
    /\ output # None /\ output.tag = "Err" => pc = "failed"
    /\ \A i \in 1..Len(history) : history[i].op = "failed" => i = Len(history) /\ pc = "failed"
    /\ pc = "failed" =>
           LET last == history[Len(history)]
           IN  /\ last.op = "failed"
               /\ last.input \in FallibleSteps
               /\ output = Err([step |-> last.input, round |-> last.round])
               /\ DOMAIN output = {"tag", "error"}
               /\ DOMAIN output.error = {"step", "round"}
               /\ last.wrote = <<>>
               /\ transcript = Flatten([i \in 1..(Len(history) - 1) |-> history[i].wrote])
               /\ ~ENABLED NextDriver
               /\ last.input = ReduceMlecheckOp =>
                      /\ new_mlechecks # <<>>
                      /\ UnitsReduced(rounds) \o new_mlechecks = DrainedMlechecks(rounds)

\* The first of two MLE-check reductions of a round failed, after earlier calls
\* had written to the transcript.
C15_Witness ==
    /\ pc = "failed"
    /\ output.error.step = ReduceMlecheckOp
    /\ Len(new_mlechecks) = 2
    /\ UnitsReduced(rounds) = <<>>
    /\ transcript # <<>>

\* ---- the committed claims
OnCommitted(c) == oracles[c.oracle].kind = "Committed"

\* The claims on committed oracles among cs, in order.
LeafClaims(cs) == SelectSeq(cs, OnCommitted)

\* C16: the eval_claims of a run that returns Ok are the committed-leaf claims
\* of the whole invocation: every claim on a committed oracle that was handed
\* to EvalcheckProver::prove in any round, the seeding call included, in the
\* order of recording. Until the return the prover holds all of them: none is
\* lost between rounds. Recording such a claim does not touch the transcript:
\* a prove call writes one message per claim on a virtual oracle and none
\* about a claim on a committed oracle.
C16_AllLeafClaimsReturned ==
    /\ pc = "done" => output.value.eval_claims = LeafClaims(Consumed)
    /\ (evalcheck_prover # None /\ pc # "done") =>
           evalcheck_prover.committed_eval_claims = LeafClaims(Consumed)
    /\ \A i \in 1..Len(ProveCalls) :
           LET e == ProveCalls[i]
           IN  /\ Len(e.wrote) = Len(e.input) - Len(LeafClaims(e.input))
               /\ \A j \in 1..Len(e.wrote) : ~OnCommitted(e.wrote[j].about)

\* The output holds a leaf claim recorded by the seeding call and one recorded
\* in a later round, by a prove call that wrote nothing.
C16_Witness ==
    /\ pc = "done"
    /\ \E i, j \in 1..Len(output.value.eval_claims) :
           /\ output.value.eval_claims[i].point = InitialPoint
           /\ output.value.eval_claims[j].point # InitialPoint
    /\ \E i \in 1..Len(ProveCalls) :
           /\ ProveCalls[i].round >= 1
           /\ ProveCalls[i].input # <<>>
           /\ ProveCalls[i].wrote = <<>>

\* ---- the memoized data
\* The cache of the invocation under way: none exists before the
\* EvalcheckProver is created.
Memo == IF evalcheck_prover = None THEN {} ELSE evalcheck_prover.memoized_data

\* The keys the calls made so far in this invocation have memoized: the claims on
\* virtual oracles handed to prove, and the constituent oracles of the MLE-check
\* units reduced, at the point of the unit's equality indicator.
MemoizedBy(calls) ==
    UNION {IF calls[i].op = "prove"
           THEN {<<calls[i].input[j].oracle, calls[i].input[j].point>> :
                    j \in {j \in 1..Len(calls[i].input) : ~OnCommitted(calls[i].input[j])}}
           ELSE IF calls[i].op = ReduceMlecheckOp
           THEN {<<calls[i].input.constraint_set.oracle_ids[j],
                   calls[i].input.eq_ind_challenges>> :
                    j \in 1..Len(calls[i].input.constraint_set.oracle_ids)}
           ELSE {} : i \in 1..Len(calls)}

MemoState ==
    /\ pc = "start" => evalcheck_prover = None
    /\ Memo = MemoizedBy(history)
    /\ pc = "done" => output.value.memoized_data = Memo

MemoStep ==
    /\ (evalcheck_prover # None /\ evalcheck_prover' # None) => Memo \subseteq Memo'
    /\ pc = "start" => Memo' \subseteq {<<claims[i].oracle, claims[i].point>> : i \in 1..Len(claims)}
    /\ pc = "reduce_bivariate" => Memo' = Memo
    /\ pc \in {"take_bivariate", "take_mlechecks"} => Memo' = Memo

\* C17: within one invocation of the driver the memoized data starts empty,
\* created with the EvalcheckProver; it grows monotonically: no step of prove
\* or of an MLE-check reduction removes a key that is present; the bivariate
\* reduction and the two drains leave it as it is; at every moment it holds
\* exactly the keys memoized by the calls of this invocation, so a second
\* invocation sees no entry of the first; the memoized data of the output is
\* the cache as it is when the loop is left.
C17_MemoizedData == []MemoState /\ [][MemoStep]_vars

\* The second invocation returned a cache with a key memoized by prove and a
\* key memoized by an MLE-check reduction, after a bivariate reduction.
C17_Witness ==
    /\ run = 2
    /\ pc = "done"
    /\ \E i \in 1..Len(history) : history[i].op = ReduceBivariateOp
    /\ \E k \in output.value.memoized_data :
           /\ k[2] = InitialPoint
           /\ \A i \in 1..Len(claims) : claims[i].oracle # k[1]
    /\ \E k \in output.value.memoized_data : k[2] # InitialPoint

\* ---- the pending queues
\* The bivariate batches handed to a reduction in round k, in order.
BatchesReduced(k) ==
    LET cs == SelectSeq(RoundCalls(k), LAMBDA e : e.op = ReduceBivariateOp)
    IN  [i \in 1..Len(cs) |-> cs[i].input]

\* C20: every constraint EvalcheckProver::prove enqueues is drained by the
\* take_new_* call of the round right after that prove call, and by no other:
\* what round k drains is what the prove call before it enqueued. A take_new_*
\* call leaves its queue empty until the next prove call. Every drained
\* constraint is handed to exactly one reduction of its round: the bivariate
\* batch to one reduction, every MLE-check unit to its own. When the driver
\* returns Ok both queues are empty and every constraint enqueued has been
\* reduced.
C20_ConstraintsDischarged ==
    /\ \A k \in 1..rounds :
           /\ ProveCalls[k].round = k - 1
           /\ DrainedBivariate(k) = ProveCalls[k].output.bivariate
           /\ Len(RoundCalls(k)) >= 2 => DrainedMlechecks(k) = ProveCalls[k].output.mlechecks
           /\ (ReductionsDone(k) /\ pc # "failed") =>
                  /\ BatchesReduced(k) =
                         IF DrainedBivariate(k) = <<>> THEN <<>> ELSE <<DrainedBivariate(k)>>
                  /\ UnitsReduced(k) = DrainedMlechecks(k)
    /\ pc \in {"take_mlechecks", "reduce_bivariate", "reduce_mlechecks", "done"} =>
           evalcheck_prover.new_bivariate_sumchecks_constraints = <<>>
    /\ pc \in {"reduce_bivariate", "reduce_mlechecks", "done"} =>
           evalcheck_prover.new_mlechecks_constraints = <<>>
    /\ pc = "done" =>
           /\ Flatten([k \in 1..Len(ProveCalls) |-> ProveCalls[k].output.bivariate]) =
                  Flatten(Flatten([k \in 1..rounds |-> BatchesReduced(k)]))
           /\ Flatten([k \in 1..Len(ProveCalls) |-> ProveCalls[k].output.mlechecks]) =
                  Flatten([k \in 1..rounds |-> UnitsReduced(k)])

\* A run that returned Ok after a round that drained two MLE-check units and a
\* round that drained a bivariate constraint.
C20_Witness ==
    /\ pc = "done"
    /\ \E k \in 1..rounds : Len(DrainedMlechecks(k)) = 2 /\ Len(UnitsReduced(k)) = 2
    /\ \E k \in 1..rounds : DrainedBivariate(k) # <<>> /\ Len(BatchesReduced(k)) = 1

\* ========================================================================
\* GrandProductWitness and the benchmark that builds it
\* ========================================================================

\* The field: GF(4), the tower field BinaryField2b; an element b1*X + b0 is the
\* number 2*b1 + b0, and X*X = X + 1.
Field == 0..3

FieldMul(a, b) ==
    LET a1 == a \div 2
        a0 == a % 2
        b1 == b \div 2
        b0 == b % 2
    IN  2 * ((a1 * b1 + a1 * b0 + a0 * b1) % 2) + ((a0 * b0 + a1 * b1) % 2)

\* The scalars the value tables of the model are drawn from: zero and the two
\* generators of the multiplicative group.
FieldSample == {0, 2, 3}

\* The type parameter P: a packed field element holds 2^LOG_WIDTH scalars.
LogWidths == {0, 1}

RECURSIVE Pow2(_)
Pow2(n) == IF n = 0 THEN 1 ELSE 2 * Pow2(n - 1)

PackedField(log_width) == [1..Pow2(log_width) -> FieldSample]

\* The scalars of a sequence of packed elements, in order.
Scalars(values) == Flatten(values)

\* Mutant: the cells of a pair are added.
NextLayer_Sum(layer) ==
    [i \in 1..(Len(layer) \div 2) |-> (layer[2 * i - 1] + layer[2 * i]) % 4]

\* One layer of partial products from the layer below: cell i is the product of
\* the cells 2i-1 and 2i.
NextLayer(layer) ==
    [i \in 1..(Len(layer) \div 2) |-> FieldMul(layer[2 * i - 1], layer[2 * i])]

\* The layers, from the value table up to the single cell of the top layer.
RECURSIVE Layers(_)
Layers(layer) ==
    IF Len(layer) <= 1 THEN <<layer>> ELSE <<layer>> \o Layers(NextLayer(layer))

ShapeError == [kind |-> "shape"]

\* Mutant: the length is compared with the number of scalars, 2^n_vars.
GrandProductWitness_new_ScalarCount(log_width, n_vars, values) ==
    IF Len(values) # Pow2(n_vars)
    THEN Err(ShapeError)
    ELSE Ok([n_vars |-> n_vars, layers |-> Layers(Scalars(values))])

\* GrandProductWitness::new: the values are packed elements, 2^LOG_WIDTH scalars
\* each; the table must hold 2^n_vars scalars, that is 2^(n_vars - LOG_WIDTH)
\* packed elements, as create_numerator builds it.
GrandProductWitness_new(log_width, n_vars, values) ==
    IF Len(values) # Pow2(n_vars - log_width)
    THEN Err(ShapeError)
    ELSE Ok([n_vars |-> n_vars, layers |-> Layers(Scalars(values))])

\* GrandProductWitness::grand_product_evaluation: the single cell of the top layer.
grand_product_evaluation(witness) == witness.layers[Len(witness.layers)][1]

\* Mutant: the numerator holds one packed element per scalar.
create_numerator_PerScalar(log_width, n_vars) ==
    [1..Pow2(n_vars) -> PackedField(log_width)]

\* create_numerator (prodcheck.rs 26-31): 1 << (n_vars - P::LOG_WIDTH) random
\* packed elements; the set of the vectors it can return.
create_numerator(log_width, n_vars) ==
    [1..Pow2(n_vars - log_width) -> PackedField(log_width)]

InitGpa ==
    /\ CompositeIdle
    /\ DriverIdle
    /\ BatchIdle
    /\ g_log_width \in LogWidths
    /\ g_args = None
    /\ g_result = None
    /\ g_ret = None
    /\ g_claim = None
    /\ g_bench = "idle"

\* A caller calls GrandProductWitness::new.
NewWitness(n_vars, values) ==
    /\ g_args = None
    /\ g_args' = [n_vars |-> n_vars, values |-> values]
    /\ g_result' = GrandProductWitness_new(g_log_width, n_vars, values)
    /\ UNCHANGED <<g_log_width, g_ret, g_claim, g_bench>>
    /\ UNCHANGED <<c_vars, d_vars, b_vars>>

\* A caller asks a witness for its product.
GrandProductEvaluation ==
    /\ g_result.tag = "Ok"
    /\ g_ret' = [method |-> "grand_product_evaluation",
                 value |-> grand_product_evaluation(g_result.value)]
    /\ UNCHANGED <<g_log_width, g_args, g_result, g_claim, g_bench>>
    /\ UNCHANGED <<c_vars, d_vars, b_vars>>

\* The closure of bench_gpa (prodcheck.rs 87-97, N_CLAIMS = 1) on the numerator
\* bench_gpa_generic made (prodcheck.rs 65): the witness is built and unwrapped,
\* and the claim is made of its product.
BenchGpa(n_vars, numerator) ==
    /\ g_args = None
    /\ LET r == GrandProductWitness_new(g_log_width, n_vars, numerator)
       IN  /\ g_args' = [n_vars |-> n_vars, values |-> numerator]
           /\ g_result' = r
           /\ IF r.tag = "Ok"
              THEN /\ g_claim' = [n_vars |-> n_vars,
                                  product |-> grand_product_evaluation(r.value)]
                   /\ g_bench' = "claimed"
              ELSE /\ g_claim' = None
                   /\ g_bench' = "panicked"
    /\ UNCHANGED <<g_log_width, g_ret>>
    /\ UNCHANGED <<c_vars, d_vars, b_vars>>

NextGpa ==
    \/ /\ g_args = None
       /\ \E n \in g_log_width..MaxGpaVars :
              \E values \in SeqsUpTo(PackedField(g_log_width), Pow2(n - g_log_width) + 1) :
                  NewWitness(n, values)
    \/ GrandProductEvaluation
    \/ /\ g_args = None
       /\ \E n \in g_log_width..MaxGpaVars :
              \E numerator \in create_numerator(g_log_width, n) : BenchGpa(n, numerator)

SpecGpa == InitGpa /\ [][NextGpa]_vars

\* ------------------------------------------------------------------------
\* Properties of GrandProductWitness
\* ------------------------------------------------------------------------
\* The product of a sequence of field elements, one factor after the other.
RECURSIVE FieldProduct(_)
FieldProduct(s) == IF s = <<>> THEN 1 ELSE FieldMul(Head(s), FieldProduct(Tail(s)))

\* C8: for a value table of 2^n_vars scalars GrandProductWitness::new succeeds,
\* grand_product_evaluation() returns the field product of all the scalars of
\* the table, and the witness after the query is the witness new built.
C8_GrandProductIsProduct ==
    /\ (g_args # None /\ Len(Scalars(g_args.values)) = Pow2(g_args.n_vars))
           => g_result.tag = "Ok"
    /\ g_ret # None =>
           /\ g_ret.value = FieldProduct(Scalars(g_args.values))
           /\ g_result.value.n_vars = g_args.n_vars
           /\ g_result.value.layers[1] = Scalars(g_args.values)
           /\ Len(g_result.value.layers) = g_args.n_vars + 1
    /\ g_claim # None => g_claim.product = FieldProduct(Scalars(g_args.values))

C8_Witness ==
    /\ g_ret # None
    /\ g_args.n_vars = 2
    /\ g_ret.value = 1
    /\ \A i \in 1..4 : Scalars(g_args.values)[i] # 1

\* C9 as stated: GrandProductWitness::new succeeds exactly when the length of
\* the sequence passed to it is 2^n_vars, and fails with a shape error otherwise.
C9_Original ==
    g_args # None =>
        /\ (g_result.tag = "Ok") <=> (Len(g_args.values) = Pow2(g_args.n_vars))
        /\ Len(g_args.values) # Pow2(g_args.n_vars) => g_result = Err(ShapeError)

\* C9 (amended): the sequence passed to GrandProductWitness::new holds packed
\* field elements of 2^LOG_WIDTH scalars each. The call succeeds exactly when
\* the sequence holds 2^n_vars scalars, that is when its length is
\* 2^(n_vars - LOG_WIDTH), and fails with a shape error otherwise (in particular
\* with one packed element less or more); the numerator of the benchmark is
\* accepted.
C9_ShapeRejection ==
    /\ g_args # None =>
           /\ (g_result.tag = "Ok")
                  <=> (Len(g_args.values) = Pow2(g_args.n_vars - g_log_width))
           /\ (g_result.tag = "Ok")
                  <=> (Len(Scalars(g_args.values)) = Pow2(g_args.n_vars))
           /\ Len(g_args.values) # Pow2(g_args.n_vars - g_log_width)
                  => g_result = Err(ShapeError)
    /\ g_bench # "panicked"

C9_Witness ==
    /\ g_args # None
    /\ g_log_width = 1
    /\ g_args.n_vars = 2
    /\ Len(g_args.values) = Pow2(g_args.n_vars - g_log_width) + 1
    /\ g_result = Err(ShapeError)

\* ========================================================================
\* The batch of grand-product claims of bench_gpa
\* ========================================================================

\* N_CLAIMS of the benchmark (prodcheck.rs 42); the model lets the number of
\* claims of a batch range from it up to MaxGpaClaims.
N_CLAIMS == 1

GrandProductClaim(n_vars, product) == [n_vars |-> n_vars, product |-> product]

\* gkr_gpa::batch_prove: one layer reduction per layer of the product tree, from
\* the top layer down to the value table; the messages of a layer cover all the
\* claims of the batch, in the order of the lists, and one challenge is derived
\* per layer and shared by the whole batch. One evaluation claim per witness
\* is returned, at the last challenge.
RECURSIVE LayerReductions(_, _, _)
LayerReductions(layer, witnesses, tr) ==
    IF layer = 0 THEN tr
    ELSE LET written == Append(tr, Write("gkr_gpa",
                                         [i \in 1..Len(witnesses) |->
                                             witnesses[i].layers[layer]]))
         IN  LayerReductions(layer - 1, witnesses,
                             Append(written, Derive("gkr_gpa", Challenge(written))))

batch_prove(witnesses, gpa_claims, tr) ==
    LET n_vars == IF gpa_claims = <<>> THEN 0 ELSE gpa_claims[1].n_vars
        written == Append(tr, Write("gkr_gpa",
                                    [i \in 1..Len(gpa_claims) |-> gpa_claims[i].product]))
        after == LayerReductions(n_vars, witnesses, written)
    IN  [transcript |-> after,
         claims |-> [i \in 1..Len(witnesses) |-> [witness |-> i, point |-> Len(after)]]]

\* Mutant: the results are collected in the order the workers finished.
CollectOrder_Completion(n, finished) == finished

\* collect::<Vec<_>>() on the indexed parallel iterator (prodcheck.rs 88-96):
\* position k of the vector holds the result of item k of the range.
CollectOrder(n, finished) == [k \in 1..n |-> k]

\* The inputs of the closure: bench_gpa_generic makes the numerator with
\* create_numerator (prodcheck.rs 65).
BatchInputs ==
    UNION {UNION {{[log_width |-> lw, n_vars |-> n, numerator |-> numerator, n_claims |-> k] :
                      numerator \in create_numerator(lw, n), k \in N_CLAIMS..MaxGpaClaims} :
                  n \in lw..MaxBatchVars} : lw \in LogWidths}

InitBatch ==
    /\ CompositeIdle
    /\ DriverIdle
    /\ GpaIdle
    /\ b_input \in BatchInputs
    /\ b_worker = [i \in 1..b_input.n_claims |-> [at |-> "new", witness |-> None]]
    /\ b_slots = [i \in 1..b_input.n_claims |-> None]
    /\ b_finished = <<>>
    /\ b_pc = "map"
    /\ b_lists = None
    /\ b_transcript = <<>>

\* prodcheck.rs 91-92: worker i builds its witness from the numerator and
\* unwraps it.
WorkerNew(i) ==
    /\ b_pc = "map"
    /\ b_worker[i].at = "new"
    /\ LET r == GrandProductWitness_new(b_input.log_width, b_input.n_vars, b_input.numerator)
       IN  IF r.tag = "Ok"
           THEN /\ b_worker' = [b_worker EXCEPT ![i] = [at |-> "evaluate", witness |-> r.value]]
                /\ b_pc' = b_pc
           ELSE /\ b_worker' = [b_worker EXCEPT ![i].at = "panicked"]
                /\ b_pc' = "panicked"
    /\ UNCHANGED <<b_input, b_slots, b_finished, b_lists, b_transcript>>
    /\ UNCHANGED <<c_vars, d_vars, g_vars>>

\* prodcheck.rs 93-94: worker i evaluates the product of its witness and yields
\* the pair of the witness and the claim made of the product.
WorkerEvaluate(i) ==
    /\ b_pc = "map"
    /\ b_worker[i].at = "evaluate"
    /\ b_slots' = [b_slots EXCEPT ![i] =
           [from |-> i,
            witness |-> b_worker[i].witness,
            claim |-> GrandProductClaim(b_input.n_vars,
                                        grand_product_evaluation(b_worker[i].witness))]]
    /\ b_worker' = [b_worker EXCEPT ![i].at = "done"]
    /\ b_finished' = Append(b_finished, i)
    /\ UNCHANGED <<b_input, b_pc, b_lists, b_transcript>>
    /\ UNCHANGED <<c_vars, d_vars, g_vars>>

\* prodcheck.rs 96-98: collect returns when every worker has finished; the
\* vector of pairs is unzipped into gpa_witnesses and gpa_claims.
CollectUnzip ==
    /\ b_pc = "map"
    /\ \A i \in DOMAIN b_worker : b_worker[i].at = "done"
    /\ LET order == CollectOrder(b_input.n_claims, b_finished)
           pairs == [k \in 1..Len(order) |-> b_slots[order[k]]]
       IN  b_lists' = [from |-> [k \in 1..Len(pairs) |-> pairs[k].from],
                       gpa_witnesses |-> [k \in 1..Len(pairs) |-> pairs[k].witness],
                       gpa_claims |-> [k \in 1..Len(pairs) |-> pairs[k].claim]]
    /\ b_pc' = "batch_prove"
    /\ UNCHANGED <<b_input, b_worker, b_slots, b_finished, b_transcript>>
    /\ UNCHANGED <<c_vars, d_vars, g_vars>>

\* prodcheck.rs 99-106: batch_prove is called on the two lists.
BatchProve ==
    /\ b_pc = "batch_prove"
    /\ b_transcript' =
           batch_prove(b_lists.gpa_witnesses, b_lists.gpa_claims, b_transcript).transcript
    /\ b_pc' = "done"
    /\ UNCHANGED <<b_input, b_worker, b_slots, b_finished, b_lists>>
    /\ UNCHANGED <<c_vars, d_vars, g_vars>>

NextBatch ==
    \/ \E i \in DOMAIN b_worker : WorkerNew(i)
    \/ \E i \in DOMAIN b_worker : WorkerEvaluate(i)
    \/ CollectUnzip
    \/ BatchProve

SpecBatch == InitBatch /\ [][NextBatch]_vars

\* ------------------------------------------------------------------------
\* Properties of the batch
\* ------------------------------------------------------------------------
\* The witness every worker builds, and the claim made of it.
BatchWitness ==
    GrandProductWitness_new(b_input.log_width, b_input.n_vars, b_input.numerator).value

BatchClaim == GrandProductClaim(b_input.n_vars, grand_product_evaluation(BatchWitness))

\* C18: when the witnesses and claims of a batch are built on parallel
\* workers, then under every interleaving of the workers position k of both
\* lists holds the result of item k of the parallel iterator, so the witness
\* at position k is paired with the claim made of its own product; batch_prove
\* writes nothing and derives nothing before every worker has finished; and
\* the transcript batch_prove leaves is a function of the inputs alone, the
\* same whatever the order in which the workers finished.
C18_BatchIsDeterministic ==
    /\ b_lists # None =>
           /\ b_lists.from = [k \in 1..b_input.n_claims |-> k]
           /\ Len(b_lists.gpa_witnesses) = b_input.n_claims
           /\ Len(b_lists.gpa_claims) = b_input.n_claims
           /\ \A k \in 1..b_input.n_claims :
                  /\ b_lists.gpa_witnesses[k] = b_slots[k].witness
                  /\ b_lists.gpa_claims[k] = b_slots[k].claim
                  /\ b_lists.gpa_claims[k].product =
                         grand_product_evaluation(b_lists.gpa_witnesses[k])
                  /\ b_lists.gpa_claims[k].n_vars = b_lists.gpa_witnesses[k].n_vars
    /\ b_transcript # <<>> =>
           /\ \A i \in DOMAIN b_worker : b_worker[i].at = "done"
           /\ Len(b_finished) = b_input.n_claims
           /\ b_lists # None
    /\ b_pc = "done" =>
           b_transcript =
               batch_prove([k \in 1..b_input.n_claims |-> BatchWitness],
                           [k \in 1..b_input.n_claims |-> BatchClaim], <<>>).transcript

\* A batch of two claims was proved after the second worker had finished
\* first.
C18_Witness ==
    /\ b_pc = "done"
    /\ b_input.n_claims = 2
    /\ b_finished = <<2, 1>>
    /\ b_input.n_vars = 1
    /\ Len(b_transcript) = 3

====
